---- MODULE Spec2Model ----
(***************************************************************************)
(* Cookie-based session core of express-ecomerce: token codec (utils/jwt), *)
(* cookie transport (utils/cookies), CSRF guard (middlewares/csrf), the    *)
(* authenticateUser middleware (middlewares/auth) and the auth controllers *)
(* (register / login / logout).                                            *)
(*                                                                         *)
(* Time is counted in ticks of 15 minutes.  Every await that reaches the   *)
(* user collection is a separate step of the request that performs it, so  *)
(* that requests interleave exactly where the event loop lets them.        *)
(* A request is immutable; the model draws a field of the request at the   *)
(* point where the handler first inspects it.                              *)
(***************************************************************************)
EXTENDS Integers, Sequences, FiniteSets, TLC

VARIABLES env, now, db, issued, redeemed, loggedOut, superseded, inflight, last

vars == <<env, now, db, issued, redeemed, loggedOut, superseded, inflight, last>>

(***************************************************************************)
(* Bounds of the model                                                     *)
(***************************************************************************)
MaxTime == 2
NumUsers == 2
NumReq == 2
MaxIssue == 2
RefreshTTL == 2

(***************************************************************************)
(* Program constants                                                       *)
(***************************************************************************)
AccessTTL == 1

Users == 1..NumUsers
Reqs == 1..NumReq

\* mutants of SafeMethods: DELETE counts as a safe method; OPTIONS does not
SafeMethodsWithDelete == {"GET", "HEAD", "OPTIONS", "DELETE"}

SafeMethodsWithoutOptions == {"GET", "HEAD"}

SafeMethods == {"GET", "HEAD", "OPTIONS"}
Methods == {"GET", "HEAD", "OPTIONS", "POST", "PUT", "PATCH", "DELETE"}

JWT_SECRET == "JWT_SECRET"
REFRESH_TOKEN_SECRET == "REFRESH_TOKEN_SECRET"
OtherSecret == "OTHER_SECRET"

\* config/env.ts: the two secrets as configured; the schema asks 32 characters of
\* each and does not ask them to differ
\* NODE_ENV is process.env.NODE_ENV as parsed by the schema (default "development");
\* PROCESS_NODE_ENV is process.env.NODE_ENV as the process was started
Unset == "undefined"
NodeEnvs == {"development", "staging", "production"}
parseNodeEnv(raw) == IF raw = Unset THEN "development" ELSE raw

Env(refreshSecret) ==
  [JWT_SECRET |-> JWT_SECRET, REFRESH_TOKEN_SECRET |-> refreshSecret,
   NODE_ENV |-> parseNodeEnv(Unset), PROCESS_NODE_ENV |-> Unset]
Configs == {Env(REFRESH_TOKEN_SECRET), Env(JWT_SECRET)}

\* the stages the process can be started in, with different secrets
Stages ==
  {[Env(REFRESH_TOKEN_SECRET) EXCEPT !.PROCESS_NODE_ENV = raw, !.NODE_ENV = parseNodeEnv(raw)] :
     raw \in NodeEnvs \cup {Unset}}

Email(u) == <<"email", u>>
NoName == <<"undefined", 0>>

(***************************************************************************)
(* Cookie values.  A token cookie is absent, a string that is no compact   *)
(* JWS, or a JWS: the secret it was signed with, its payload, and whether  *)
(* its bytes still are the ones that were signed.                          *)
(***************************************************************************)
Blank(shape) ==
  [shape |-> shape, key |-> "", id |-> 0, email |-> NoName, username |-> NoName,
   iat |-> 0, exp |-> 0, intact |-> FALSE]

AbsentTok == Blank("absent")
GarbageTok == Blank("garbage")

Payload(u, username) == [id |-> u, email |-> Email(u), username |-> username]
NoPayload == [id |-> 0, email |-> NoName, username |-> NoName]

\* mutant of SignJWT: the email is signed as the username
SignJWTEmailAsName(payload, secret, iat, ttl) ==
  [shape |-> "jws", key |-> secret, id |-> payload.id, email |-> payload.email,
   username |-> payload.email, iat |-> iat, exp |-> iat + ttl, intact |-> TRUE]

SignJWT(payload, secret, iat, ttl) ==
  [shape |-> "jws", key |-> secret, id |-> payload.id, email |-> payload.email,
   username |-> payload.username, iat |-> iat, exp |-> iat + ttl, intact |-> TRUE]

generateAccessToken(payload, t) == SignJWT(payload, env.JWT_SECRET, t, AccessTTL)

generateRefreshToken(payload, t) ==
  SignJWT(payload, env.REFRESH_TOKEN_SECRET, t, RefreshTTL)

\* mutant of jwtVerify: the exp claim is looked at before the signature
jwtVerifyExpiryFirst(token, secret, t) ==
  IF token.shape # "jws" THEN "JWSInvalid"
  ELSE IF token.exp <= t THEN "JWTExpired"
  ELSE IF token.key # secret \/ ~token.intact THEN "JWSSignatureVerificationFailed"
  ELSE "ok"

\* jose jwtVerify: compact-JWS structure, then the signature, then the claims.
jwtVerify(token, secret, t) ==
  IF token.shape # "jws" THEN "JWSInvalid"
  ELSE IF token.key # secret \/ ~token.intact THEN "JWSSignatureVerificationFailed"
  ELSE IF token.exp <= t THEN "JWTExpired"
  ELSE "ok"

\* mutants of verifyAccessToken: the expiry is taken one tick early; a token whose
\* user has no stored refresh token is refused
verifyAccessTokenEarlyExpiry(token, t) == jwtVerify(token, JWT_SECRET, t + 1)

verifyAccessTokenOfSession(token, t) ==
  IF jwtVerify(token, JWT_SECRET, t) = "ok" /\ db[token.id].refreshToken = AbsentTok
  THEN "JWTInvalid"
  ELSE jwtVerify(token, JWT_SECRET, t)

\* mutant of verifyAccessToken: a missing token is reported as an expired one
verifyAccessTokenAbsentExpired(token, t) ==
  IF token.shape = "absent" THEN "JWTExpired" ELSE jwtVerify(token, env.JWT_SECRET, t)

verifyAccessToken(token, t) == jwtVerify(token, env.JWT_SECRET, t)

\* mutant of verifyRefreshToken: the expiry of the refresh token is not enforced
verifyRefreshTokenNoExpiry(token, t) ==
  IF jwtVerify(token, REFRESH_TOKEN_SECRET, t) = "JWTExpired" THEN "ok"
  ELSE jwtVerify(token, REFRESH_TOKEN_SECRET, t)

verifyRefreshToken(token, t) == jwtVerify(token, env.REFRESH_TOKEN_SECRET, t)

\* the payload jwtVerify returns: the claims signed, iat and exp among them
PayloadOf(token) ==
  [id |-> token.id, email |-> token.email, username |-> token.username,
   iat |-> token.iat, exp |-> token.exp]

Tamper(token) == [token EXCEPT !.intact = FALSE]
Resign(token) == [token EXCEPT !.key = OtherSecret]

AccessIssued == {t \in issued : t.key = JWT_SECRET}
RefreshIssued == {t \in issued : t.key = REFRESH_TOKEN_SECRET}

\* what the requests carry in the token cookie: nothing, a string that is no JWS, a
\* token the server has sent (of either kind), or an access token altered or signed
\* with another secret
TokenCookies ==
  {AbsentTok, GarbageTok} \cup issued
    \cup {Tamper(t) : t \in AccessIssued} \cup {Resign(t) : t \in AccessIssued}

\* and in the refreshToken cookie
RefreshCookies ==
  {AbsentTok, GarbageTok} \cup RefreshIssued \cup {Tamper(t) : t \in RefreshIssued}

(***************************************************************************)
(* CSRF values: a cookie or header is absent or a string of bytes.         *)
(***************************************************************************)
NoCsrf == [present |-> FALSE, bytes |-> <<>>]
Str(b) == [present |-> TRUE, bytes |-> b]
Falsy(v) == ~v.present \/ v.bytes = <<>>
CsrfBytes == {<<>>, <<1>>, <<2>>, <<1, 1>>, <<1, 2>>}
CsrfValues == {NoCsrf} \cup {Str(b) : b \in CsrfBytes}
\* the values setCsrfCookie draws, and those the requests of a session carry
CsrfIssued == {Str(<<1>>), Str(<<2>>)}
CsrfCookies == {NoCsrf, Str(<<1>>)}
CsrfHeaders == {NoCsrf, Str(<<1>>), Str(<<2>>)}

\* mutant of timingSafeEqual: only the first byte is compared
timingSafeEqualFirstByte(a, b) == a[1] = b[1]

timingSafeEqual(a, b) == \A i \in 1..Len(a) : a[i] = b[i]

Reply(status, error, next) == [status |-> status, error |-> error, next |-> next]

\* middlewares/csrf.ts
verifyCsrfToken(method, csrfCookie, csrfHeader) ==
  IF method \in SafeMethods THEN Reply(0, "", TRUE)
  ELSE IF Falsy(csrfCookie) \/ Falsy(csrfHeader) THEN Reply(403, "Missing CSRF token", FALSE)
  ELSE IF Len(csrfCookie.bytes) # Len(csrfHeader.bytes)
            \/ ~timingSafeEqual(csrfCookie.bytes, csrfHeader.bytes)
       THEN Reply(403, "Invalid CSRF token", FALSE)
  ELSE Reply(0, "", TRUE)

(***************************************************************************)
(* The user collection: one document per user, refreshToken optional.      *)
(***************************************************************************)
NoUser == [exists |-> FALSE, refreshToken |-> AbsentTok]
UserDoc(token) == [exists |-> TRUE, refreshToken |-> token]

findById(id) == IF id \in Users THEN db[id] ELSE NoUser

\* mutant of findByRefreshToken: every user that holds a refresh token matches
findByRefreshTokenAny(token) == {u \in Users : db[u].exists /\ db[u].refreshToken # AbsentTok}

\* User.findOne({ refreshToken }): the users whose stored value is the given one
findByRefreshToken(token) == {u \in Users : db[u].exists /\ db[u].refreshToken = token}

\* the model stops issuing refresh tokens that were never issued once MaxIssue exist
MayIssue(token) == token \in issued \/ Cardinality(RefreshIssued) < MaxIssue

(***************************************************************************)
(* A request in flight between two awaits of authenticateUser, and the     *)
(* record of the request that the last step completed: what it carried,    *)
(* what the handler answered, which cookies the response sets and clears.  *)
(* The fields seen, won, hit, late and old are bookkeeping for the         *)
(* properties.                                                             *)
(***************************************************************************)
Idle ==
  [pc |-> "idle", acc |-> AbsentTok, ref |-> AbsentTok, access |-> "", refresh |-> "",
   snap |-> NoUser, holder |-> 0, seen |-> FALSE, won |-> FALSE, hit |-> FALSE, late |-> FALSE,
   old |-> FALSE]

NoLast ==
  [op |-> "none", method |-> "", token |-> AbsentTok, refreshToken |-> AbsentTok,
   csrfRead |-> FALSE, csrfCookie |-> NoCsrf, csrfHeader |-> NoCsrf,
   sentCookie |-> NoCsrf, sentHeader |-> NoCsrf,
   kind |-> "", verifyKind |-> "", damage |-> "", payload |-> NoPayload, verdict |-> "",
   status |-> 0, error |-> "", next |-> FALSE, user |-> NoPayload,
   setToken |-> AbsentTok, setRefresh |-> AbsentTok, setCsrf |-> NoCsrf, cleared |-> {},
   headers |-> {},
   access |-> "", refresh |-> "", lookups |-> 0, found |-> NoUser,
   seen |-> FALSE, won |-> FALSE, hit |-> FALSE, late |-> FALSE, old |-> FALSE]

AuthLast(acc, ref) ==
  [NoLast EXCEPT !.op = "auth", !.token = acc, !.refreshToken = ref]

Answer(rec, reply) ==
  [rec EXCEPT !.status = reply.status, !.error = reply.error, !.next = reply.next]

\* the CSRF guard as the last middleware of a request: it reads the method, and the
\* csrfToken cookie and the X-CSRF-Token header only when the method is not a safe one
Guarded(rec, method, c, h) ==
  IF method \in SafeMethods
  THEN Answer([rec EXCEPT !.method = method], verifyCsrfToken(method, NoCsrf, NoCsrf))
  ELSE Answer([rec EXCEPT !.method = method, !.csrfRead = TRUE, !.csrfCookie = c,
                          !.csrfHeader = h],
              verifyCsrfToken(method, c, h))

\* the requests the guard is drawn with: method, csrfToken cookie, X-CSRF-Token header
CsrfInputs ==
  (SafeMethods \X {NoCsrf} \X {NoCsrf}) \cup ((Methods \ SafeMethods) \X CsrfCookies \X CsrfHeaders)

(***************************************************************************)
(* utils/cookies.ts: a Set-Cookie header of the response is the name of    *)
(* the cookie, whether it clears it, and its attributes; Max-Age is in     *)
(* days, 0 for a header that clears.  The value written is kept in the     *)
(* record of the response (setToken, setRefresh, setCsrf).                 *)
(***************************************************************************)
cookie(name, httpOnly, secure, sameSite, maxAge, path) ==
  [name |-> name, clear |-> FALSE, httpOnly |-> httpOnly, secure |-> secure,
   sameSite |-> sameSite, maxAge |-> maxAge, path |-> path]

\* express res.clearCookie(name, options): the options given, expiry in the past
clearCookie(name, httpOnly, secure, sameSite, path) ==
  [name |-> name, clear |-> TRUE, httpOnly |-> httpOnly, secure |-> secure,
   sameSite |-> sameSite, maxAge |-> 0, path |-> path]

\* mutant of setTokenCookie: the csrfToken cookie is written again with the value 1
setTokenCookieAndCsrf(rec, token) ==
  LET isProduction == env.NODE_ENV = "production" IN
  [rec EXCEPT !.setToken = token,
              !.setCsrf = Str(<<1>>),
              !.headers = @ \cup {cookie("token", TRUE, isProduction, "lax", 7, "/"),
                                  cookie("csrfToken", FALSE, isProduction, "lax", 7, "/")}]

setTokenCookie(rec, token) ==
  LET isProduction == env.NODE_ENV = "production" IN
  [rec EXCEPT !.setToken = token,
              !.headers = @ \cup {cookie("token", TRUE, isProduction, "lax", 7, "/")}]

setRefreshTokenCookie(rec, token) ==
  LET isProduction == env.NODE_ENV = "production" IN
  [rec EXCEPT !.setRefresh = token,
              !.headers = @ \cup {cookie("refreshToken", TRUE, isProduction, "lax", 30, "/")}]

setCsrfCookie(rec, csrfToken) ==
  [rec EXCEPT !.setCsrf = csrfToken,
              !.headers = @ \cup {cookie("csrfToken", FALSE, env.NODE_ENV = "production",
                                         "lax", 7, "/")}]

(***************************************************************************)
(* Initial state: the two secrets configured with different values, empty  *)
(* user collection, no request in flight.                                  *)
(***************************************************************************)
Init ==
  /\ env = Env(REFRESH_TOKEN_SECRET)
  /\ now = 0
  /\ db = [u \in Users |-> NoUser]
  /\ issued = {}
  /\ redeemed = {}
  /\ loggedOut = {}
  /\ superseded = {}
  /\ inflight = [r \in Reqs |-> Idle]
  /\ last = NoLast

\* a step is taken once the record of the last completed request has been dropped
Ready == last = NoLast

Tick ==
  /\ Ready
  /\ UNCHANGED env
  /\ now < MaxTime
  /\ now' = now + 1
  /\ last' = NoLast
  /\ UNCHANGED <<db, issued, redeemed, loggedOut, superseded, inflight>>

(***************************************************************************)
(* middlewares/auth.ts, authenticateUser                                   *)
(***************************************************************************)
SessionExpired == Reply(401, "Session expired. Please log in again.", FALSE)

\* mutant of NoTokenProvided: the early return is taken only for a lone refresh cookie
NoTokenProvidedSkipped(accessToken, refreshToken) ==
  accessToken.shape = "absent" /\ refreshToken.shape # "absent"

\* line 12: neither cookie is there
NoTokenProvided(accessToken, refreshToken) ==
  accessToken.shape = "absent" /\ refreshToken.shape = "absent"

\* mutant of IsJWTExpired: every verification error leads into the refresh flow
IsJWTExpiredOrInvalid(err) == err # "ok"

\* line 21: err instanceof JWTExpired
IsJWTExpired(err) == err = "JWTExpired"

\* line 51: err instanceof JWTInvalid
IsJWTInvalid(err) == err = "JWTInvalid"

\* mutants of InvalidRefreshToken: a refresh token is accepted once only; the stored
\* value is not compared
InvalidRefreshTokenOnce(user, refreshToken) ==
  ~user.exists \/ user.refreshToken # refreshToken \/ refreshToken \in redeemed

InvalidRefreshTokenUncompared(user, refreshToken) == ~user.exists

\* line 31: !user || user.refreshToken !== refreshToken
InvalidRefreshToken(user, refreshToken) == ~user.exists \/ user.refreshToken # refreshToken

\* lines 9-28: up to the point where User.findById is awaited
AuthStart(r, acc, ref) ==
  LET av == verifyAccessToken(acc, now)
      rv == verifyRefreshToken(ref, now)
      rec == [AuthLast(acc, ref) EXCEPT !.access = jwtVerify(acc, JWT_SECRET, now)]
      rec2 == [rec EXCEPT !.refresh = jwtVerify(ref, REFRESH_TOKEN_SECRET, now)]
      done(x) == /\ last' = x
                 /\ UNCHANGED inflight
  IN
  /\ Ready
  /\ UNCHANGED env
  /\ inflight[r].pc = "idle"
  /\ UNCHANGED <<now, db, issued, redeemed, loggedOut, superseded>>
  /\ IF NoTokenProvided(acc, ref)
     THEN done(Answer(AuthLast(acc, ref), Reply(401, "No token provided", FALSE)))
     ELSE IF av = "ok"
     THEN \E q \in CsrfInputs :
            done(Guarded([rec EXCEPT !.user = PayloadOf(acc)], q[1], q[2], q[3]))
     ELSE IF IsJWTExpired(av)
     THEN IF ref.shape = "absent"
          THEN done(Answer(rec, SessionExpired))
          ELSE IF rv # "ok"
          THEN done(Answer(rec2, SessionExpired))
          ELSE /\ inflight' = [inflight EXCEPT ![r] =
                     [Idle EXCEPT !.pc = "lookup", !.acc = acc, !.ref = ref,
                                  !.access = rec2.access, !.refresh = rec2.refresh,
                                  !.seen = ref \in redeemed,
                                  !.late = ref \in loggedOut,
                                  !.old = ref \in superseded]]
               /\ last' = NoLast
     ELSE IF IsJWTInvalid(av)
     THEN done(Answer(rec, Reply(401, "Invalid token", FALSE)))
     ELSE done(Answer(rec, Reply(401, "Invalid or expired token", FALSE)))

InflightLast(r) ==
  LET s == inflight[r]
  IN [AuthLast(s.acc, s.ref) EXCEPT
        !.access = s.access, !.refresh = s.refresh, !.seen = s.seen, !.won = s.won,
        !.hit = s.hit, !.late = s.late, !.old = s.old]

\* mutant of AuthLookup: a query that fails is taken as an authenticated request
AuthLookupFailOpen(r, fails) ==
  LET s == inflight[r]
  IN
  /\ Ready
  /\ UNCHANGED env
  /\ s.pc = "lookup"
  /\ UNCHANGED <<now, db, issued, redeemed, loggedOut, superseded>>
  /\ IF fails
     THEN /\ last' = Answer([InflightLast(r) EXCEPT !.user = PayloadOf(s.ref)],
                            Reply(200, "", TRUE))
          /\ inflight' = [inflight EXCEPT ![r] = Idle]
     ELSE /\ inflight' = [inflight EXCEPT ![r].pc = "issue", ![r].snap = findById(s.ref.id)]
          /\ last' = NoLast

\* line 29: the store answers User.findById, or the query fails
AuthLookup(r, fails) ==
  LET s == inflight[r]
  IN
  /\ Ready
  /\ UNCHANGED env
  /\ s.pc = "lookup"
  /\ UNCHANGED <<now, db, issued, redeemed, loggedOut, superseded>>
  /\ IF fails
     THEN /\ last' = Answer(InflightLast(r), SessionExpired)
          /\ inflight' = [inflight EXCEPT ![r] = Idle]
     ELSE /\ inflight' = [inflight EXCEPT ![r].pc = "issue", ![r].snap = findById(s.ref.id)]
          /\ last' = NoLast

\* bookkeeping when request r has passed the refresh path with token ref
Redeem(r, ref) ==
  /\ redeemed' = IF inflight[r].hit THEN redeemed ELSE redeemed \cup {ref}
  /\ inflight' = [q \in Reqs |->
                    IF q = r THEN Idle
                    ELSE IF inflight[q].pc # "idle" /\ inflight[q].ref = ref /\ ~inflight[r].hit
                         THEN [inflight[q] EXCEPT !.won = TRUE]
                         ELSE inflight[q]]

\* mutant of AuthFinish: the refresh token is rotated on every renewal
AuthFinishRotating(r) ==
  LET s == inflight[r]
      user == s.snap
      rec == [InflightLast(r) EXCEPT !.lookups = 1, !.found = user]
      payload == Payload(s.ref.id, Email(s.ref.id))
      newAccessToken == generateAccessToken(payload, now)
      newRefreshToken == generateRefreshToken(payload, now)
  IN
  /\ Ready
  /\ UNCHANGED env
  /\ s.pc = "issue"
  /\ UNCHANGED <<now, loggedOut, superseded>>
  /\ IF InvalidRefreshToken(user, s.ref)
     THEN /\ last' = Answer(rec, Reply(403, "Invalid refresh token", FALSE))
          /\ inflight' = [inflight EXCEPT ![r] = Idle]
          /\ UNCHANGED <<db, issued, redeemed>>
     ELSE /\ \E q \in CsrfInputs :
               last' = Guarded([setRefreshTokenCookie(setTokenCookie(rec, newAccessToken),
                                                      newRefreshToken)
                                  EXCEPT !.user = PayloadOf(s.ref)], q[1], q[2], q[3])
          /\ db' = [db EXCEPT ![s.ref.id].refreshToken = newRefreshToken]
          /\ issued' = issued \cup {newAccessToken, newRefreshToken}
          /\ Redeem(r, s.ref)

\* lines 31-44: compare with the document read, mint the access token, CSRF guard
AuthFinish(r) ==
  LET s == inflight[r]
      user == s.snap
      rec == [InflightLast(r) EXCEPT !.lookups = 1, !.found = user]
      newAccessToken == generateAccessToken(Payload(s.ref.id, Email(s.ref.id)), now)
  IN
  /\ Ready
  /\ UNCHANGED env
  /\ s.pc = "issue"
  /\ UNCHANGED <<now, db, loggedOut, superseded>>
  /\ IF InvalidRefreshToken(user, s.ref)
     THEN /\ last' = Answer(rec, Reply(403, "Invalid refresh token", FALSE))
          /\ inflight' = [inflight EXCEPT ![r] = Idle]
          /\ UNCHANGED <<issued, redeemed>>
     ELSE /\ \E q \in CsrfInputs :
               last' = Guarded([setTokenCookie(rec, newAccessToken)
                                  EXCEPT !.user = PayloadOf(s.ref)], q[1], q[2], q[3])
          /\ issued' = issued \cup {newAccessToken}
          /\ Redeem(r, s.ref)

(***************************************************************************)
(* controllers/authController.ts                                           *)
(***************************************************************************)
\* bookkeeping of a write to user u's document by register or login (relogin) or by
\* logout
Disturb(u, relogin) ==
  /\ redeemed' = {t \in redeemed : t.id # u}
  /\ inflight' = [q \in Reqs |->
                    IF inflight[q].pc # "idle" /\ inflight[q].ref.id = u
                    THEN [inflight[q] EXCEPT !.hit = TRUE, !.late = @ /\ ~relogin]
                    ELSE inflight[q]]

\* the refresh tokens a completed logout has presented, until their user logs in again
Relogin(u) == loggedOut' = {t \in loggedOut : t.id # u}

\* the refresh tokens of a user that were issued before a refresh token of another
\* value was issued for that user
Supersede(u, refreshToken) ==
  superseded' = superseded \cup {t \in RefreshIssued : t.id = u /\ t # refreshToken}

\* the three cookie writes of registerUser and of loginUser
SetAuthCookies(rec, accessToken, refreshToken, csrf) ==
  setCsrfCookie(setRefreshTokenCookie(setTokenCookie(rec, accessToken), refreshToken), csrf)

\* mutant of clearAuthCookies: the two cookies are cleared with no options
clearAuthCookiesNoOptions(rec) ==
  [rec EXCEPT !.cleared = {"token", "csrfToken"},
              !.headers = @ \cup {clearCookie("token", FALSE, FALSE, "", "/"),
                                  clearCookie("csrfToken", FALSE, FALSE, "", "/")}]

\* utils/cookies.ts clearAuthCookies
clearAuthCookies(rec) ==
  LET isProduction == env.NODE_ENV = "production" IN
  [rec EXCEPT !.cleared = {"token", "csrfToken"},
              !.headers = @ \cup {clearCookie("token", TRUE, isProduction, "lax", "/"),
                                  clearCookie("csrfToken", FALSE, isProduction, "lax", "/")}]

registerUser(u, csrf, saveFails) ==
  LET rec == [NoLast EXCEPT !.op = "register", !.method = "POST"]
      payload == Payload(u, NoName)
      accessToken == generateAccessToken(payload, now)
      refreshToken == generateRefreshToken(payload, now)
  IN
  /\ Ready
  /\ UNCHANGED env
  /\ UNCHANGED now
  /\ IF db[u].exists
     THEN /\ ~saveFails
          /\ csrf = Str(<<1>>)
          /\ last' = Answer(rec, Reply(409, "User already exist", FALSE))
          /\ UNCHANGED <<db, issued, redeemed, loggedOut, superseded, inflight>>
     ELSE /\ MayIssue(refreshToken)
          /\ issued' = issued \cup {accessToken, refreshToken}
          /\ db' = [db EXCEPT ![u] = UserDoc(IF saveFails THEN AbsentTok ELSE refreshToken)]
          /\ Disturb(u, TRUE)
          /\ Relogin(u)
          /\ Supersede(u, refreshToken)
          /\ last' = Answer(SetAuthCookies(rec, accessToken, refreshToken, csrf),
                            IF saveFails THEN Reply(500, "Internal server error", FALSE)
                            ELSE Reply(201, "", FALSE))

\* mutant of loginUser: the refresh token issued is not written to the document
loginUserUnsaved(u, passwordOk, csrf, saveFails) ==
  LET rec == [NoLast EXCEPT !.op = "login", !.method = "POST"]
      payload == Payload(u, Email(u))
      accessToken == generateAccessToken(payload, now)
      refreshToken == generateRefreshToken(payload, now)
  IN
  /\ Ready
  /\ UNCHANGED env
  /\ UNCHANGED now
  /\ IF ~db[u].exists \/ ~passwordOk
     THEN /\ ~saveFails
          /\ csrf = Str(<<1>>)
          /\ last' = Answer(rec, Reply(401, "Invalid credentials", FALSE))
          /\ UNCHANGED <<db, issued, redeemed, loggedOut, superseded, inflight>>
     ELSE IF saveFails
     THEN /\ csrf = Str(<<1>>)
          /\ last' = Answer(rec, Reply(500, "Login failed", FALSE))
          /\ UNCHANGED <<db, issued, redeemed, loggedOut, superseded, inflight>>
     ELSE /\ MayIssue(refreshToken)
          /\ issued' = issued \cup {accessToken, refreshToken}
          /\ db' = db
          /\ Disturb(u, TRUE)
          /\ Relogin(u)
          /\ Supersede(u, refreshToken)
          /\ last' = Answer(SetAuthCookies(rec, accessToken, refreshToken, csrf),
                            Reply(200, "", FALSE))

loginUser(u, passwordOk, csrf, saveFails) ==
  LET rec == [NoLast EXCEPT !.op = "login", !.method = "POST"]
      payload == Payload(u, Email(u))
      accessToken == generateAccessToken(payload, now)
      refreshToken == generateRefreshToken(payload, now)
  IN
  /\ Ready
  /\ UNCHANGED env
  /\ UNCHANGED now
  /\ IF ~db[u].exists \/ ~passwordOk
     THEN /\ ~saveFails
          /\ csrf = Str(<<1>>)
          /\ last' = Answer(rec, Reply(401, "Invalid credentials", FALSE))
          /\ UNCHANGED <<db, issued, redeemed, loggedOut, superseded, inflight>>
     ELSE IF saveFails
     THEN /\ csrf = Str(<<1>>)
          /\ last' = Answer(rec, Reply(500, "Login failed", FALSE))
          /\ UNCHANGED <<db, issued, redeemed, loggedOut, superseded, inflight>>
     ELSE /\ MayIssue(refreshToken)
          /\ issued' = issued \cup {accessToken, refreshToken}
          /\ db' = [db EXCEPT ![u].refreshToken = refreshToken]
          /\ Disturb(u, TRUE)
          /\ Relogin(u)
          /\ Supersede(u, refreshToken)
          /\ last' = Answer(SetAuthCookies(rec, accessToken, refreshToken, csrf),
                            Reply(200, "", FALSE))

\* mutant of logoutUser: the cookies are cleared, the stored refresh token is kept
logoutUserCookiesOnly(refreshToken) ==
  /\ Ready
  /\ UNCHANGED env
  /\ UNCHANGED <<now, db, issued, redeemed, superseded, inflight>>
  /\ loggedOut' = loggedOut \cup ({refreshToken} \cap RefreshIssued)
  /\ last' = Answer(clearAuthCookies([NoLast EXCEPT !.op = "logout", !.method = "POST",
                                                    !.refreshToken = refreshToken]),
                    Reply(200, "", FALSE))

\* POST /logout is routed without authenticateUser and without verifyCsrfToken: the
\* handler reads the refreshToken cookie only, and the request is taken without a
\* csrfToken cookie and without an X-CSRF-Token header
logoutUser(refreshToken) ==
  LET rec == [NoLast EXCEPT !.op = "logout", !.method = "POST",
                            !.refreshToken = refreshToken,
                            !.sentCookie = NoCsrf, !.sentHeader = NoCsrf]
      holders == IF refreshToken.shape = "absent" THEN {} ELSE findByRefreshToken(refreshToken)
      lookups == IF refreshToken.shape = "absent" THEN 0 ELSE 1
      found == IF holders = {} THEN NoUser ELSE db[CHOOSE u \in holders : TRUE]
  IN
  /\ Ready
  /\ UNCHANGED env
  /\ UNCHANGED <<now, issued, superseded>>
  /\ IF holders = {}
     THEN UNCHANGED <<db, redeemed, inflight>>
     ELSE \E u \in holders :
            /\ db' = [db EXCEPT ![u].refreshToken = AbsentTok]
            /\ Disturb(u, FALSE)
  /\ loggedOut' = loggedOut \cup ({refreshToken} \cap RefreshIssued)
  /\ last' = Answer(clearAuthCookies([rec EXCEPT !.lookups = lookups, !.found = found]),
                    Reply(200, "", FALSE))

\* logoutUser step by step.  Lines 121-123: the cookie is read and, when there is one,
\* User.findOne answers; with no cookie or no document the handler goes on to clear
\* the cookies and answers, with a document it assigns undefined and calls save
logoutFindOne(r, refreshToken) ==
  LET rec == [NoLast EXCEPT !.op = "logout", !.method = "POST",
                            !.refreshToken = refreshToken]
      holders == IF refreshToken.shape = "absent" THEN {} ELSE findByRefreshToken(refreshToken)
      lookups == IF refreshToken.shape = "absent" THEN 0 ELSE 1
  IN
  /\ Ready
  /\ UNCHANGED env
  /\ inflight[r].pc = "idle"
  /\ UNCHANGED <<now, db, issued, redeemed, superseded>>
  /\ IF holders = {}
     THEN /\ last' = Answer(clearAuthCookies([rec EXCEPT !.lookups = lookups]),
                            Reply(200, "", FALSE))
          /\ loggedOut' = loggedOut \cup ({refreshToken} \cap RefreshIssued)
          /\ UNCHANGED inflight
     ELSE /\ \E u \in holders :
               inflight' = [inflight EXCEPT ![r] =
                              [Idle EXCEPT !.pc = "save", !.ref = refreshToken, !.holder = u,
                                           !.snap = db[u]]]
          /\ last' = NoLast
          /\ UNCHANGED loggedOut

\* lines 124-131: user.save() unsets refreshToken on the document that was found, by
\* its _id; then the cookies are cleared and the handler answers
logoutSave(r) ==
  LET s == inflight[r]
      rec == [NoLast EXCEPT !.op = "logout", !.method = "POST", !.refreshToken = s.ref,
                            !.lookups = 1, !.found = s.snap, !.hit = s.hit]
  IN
  /\ Ready
  /\ UNCHANGED env
  /\ s.pc = "save"
  /\ UNCHANGED <<now, issued, superseded>>
  /\ db' = [db EXCEPT ![s.holder].refreshToken = AbsentTok]
  /\ redeemed' = {t \in redeemed : t.id # s.holder}
  /\ inflight' = [inflight EXCEPT ![r] = Idle]
  /\ loggedOut' = loggedOut \cup ({s.ref} \cap RefreshIssued)
  /\ last' = Answer(clearAuthCookies(rec), Reply(200, "", FALSE))

\* controllers/logoutController.ts logoutUser, the handler that is not routed: as
\* logoutUser, and it clears the refreshToken cookie as well, reading the stage from
\* process.env
logoutControllerLogoutUser(refreshToken) ==
  LET rec == [NoLast EXCEPT !.op = "logoutController", !.method = "POST",
                            !.refreshToken = refreshToken]
      holders == IF refreshToken.shape = "absent" THEN {} ELSE findByRefreshToken(refreshToken)
      lookups == IF refreshToken.shape = "absent" THEN 0 ELSE 1
      found == IF holders = {} THEN NoUser ELSE db[CHOOSE u \in holders : TRUE]
      cleared == clearAuthCookies([rec EXCEPT !.lookups = lookups, !.found = found])
  IN
  /\ Ready
  /\ UNCHANGED env
  /\ UNCHANGED <<now, issued, superseded>>
  /\ IF holders = {}
     THEN UNCHANGED <<db, redeemed, inflight>>
     ELSE \E u \in holders :
            /\ db' = [db EXCEPT ![u].refreshToken = AbsentTok]
            /\ Disturb(u, FALSE)
  /\ loggedOut' = loggedOut \cup ({refreshToken} \cap RefreshIssued)
  /\ last' = Answer([cleared EXCEPT
                       !.cleared = @ \cup {"refreshToken"},
                       !.headers = @ \cup {clearCookie("refreshToken", TRUE,
                                                       env.PROCESS_NODE_ENV = "production",
                                                       "lax", "/")}],
                    Reply(200, "", FALSE))

\* the document of user u is removed from the collection by other means than the
\* controllers; the tokens issued for u stay with the clients
dropUser(u) ==
  /\ Ready
  /\ UNCHANGED env
  /\ db[u].exists
  /\ db' = [db EXCEPT ![u] = NoUser]
  /\ Disturb(u, FALSE)
  /\ last' = NoLast
  /\ UNCHANGED <<now, issued, loggedOut, superseded>>

\* middlewares/csrf.ts mounted on its own, on a request that carries the csrfToken
\* cookie c and the X-CSRF-Token header h
csrfRequest(method, c, h) ==
  /\ Ready
  /\ UNCHANGED env
  /\ last' = Guarded([NoLast EXCEPT !.op = "csrf", !.sentCookie = c, !.sentHeader = h],
                     method, c, h)
  /\ UNCHANGED <<now, db, issued, redeemed, loggedOut, superseded, inflight>>

(***************************************************************************)
(* utils/jwt.ts on its own: a token of one kind is issued for a payload at *)
(* time t0, reaches the verifier of a kind as issued, altered, signed with *)
(* another secret or replaced by a string that is no JWS, and is verified  *)
(* at the current time.                                                    *)
(***************************************************************************)
Kinds == {"access", "refresh"}
Damages == {"none", "tamper", "resign", "garbage"}
Payloads == {Payload(u, NoName) : u \in Users} \cup {Payload(u, Email(u)) : u \in Users}

generateToken(kind, payload, t) ==
  IF kind = "access" THEN generateAccessToken(payload, t)
  ELSE generateRefreshToken(payload, t)

verifyToken(kind, token, t) ==
  IF kind = "access" THEN verifyAccessToken(token, t) ELSE verifyRefreshToken(token, t)

Damage(damage, token) ==
  CASE damage = "none" -> token
    [] damage = "tamper" -> Tamper(token)
    [] damage = "resign" -> Resign(token)
    [] damage = "garbage" -> GarbageTok

codecApply(kind, verifyKind, payload, t0, damage) ==
  LET token == Damage(damage, generateToken(kind, payload, t0))
      verdict == verifyToken(verifyKind, token, now)
  IN
  /\ Ready
  /\ UNCHANGED env
  /\ last' = [NoLast EXCEPT !.op = "codec", !.kind = kind, !.verifyKind = verifyKind,
                            !.damage = damage, !.payload = payload, !.token = token,
                            !.verdict = verdict,
                            !.user = IF verdict = "ok" THEN PayloadOf(token) ELSE NoPayload]
  /\ UNCHANGED <<now, db, issued, redeemed, loggedOut, superseded, inflight>>

(***************************************************************************)
(* Spec handles one authenticateUser at a time (register, login, logout    *)
(* and the clock still interleave with its awaits); SpecRace runs NumReq   *)
(* of them concurrently, each presenting cookies the server has sent;      *)
(* SpecCsrf exercises the CSRF guard alone over CsrfValues.                *)
(***************************************************************************)
\* the record of a completed request is dropped before the next step is taken
Forget ==
  /\ ~Ready
  /\ UNCHANGED env
  /\ last' = NoLast
  /\ UNCHANGED <<now, db, issued, redeemed, loggedOut, superseded, inflight>>

Sessions ==
  \/ Tick
  \/ \E u \in Users, csrf \in CsrfIssued, f \in BOOLEAN : registerUser(u, csrf, f)
  \/ \E u \in Users, ok \in BOOLEAN, csrf \in CsrfIssued, f \in BOOLEAN :
       loginUser(u, ok, csrf, f)
  \/ \E t \in RefreshCookies : logoutUser(t)

Next ==
  \/ Forget
  \/ Sessions
  \/ \E acc \in TokenCookies, ref \in RefreshCookies : AuthStart(1, acc, ref)
  \/ \E f \in BOOLEAN : AuthLookup(1, f)
  \/ AuthFinish(1)

Spec == Init /\ [][Next]_vars

\* the access token that was sent together with a refresh token
IssuedWith(refreshToken) == generateAccessToken(PayloadOf(refreshToken), refreshToken.iat)

\* request slots are taken in order
FreeSlot(r) == \A q \in Reqs : q < r => inflight[q].pc # "idle"

NextRace ==
  \/ Forget
  \/ Sessions
  \/ \E r \in Reqs, ref \in RefreshIssued : FreeSlot(r) /\ AuthStart(r, IssuedWith(ref), ref)
  \/ \E r \in Reqs, f \in BOOLEAN : AuthLookup(r, f)
  \/ \E r \in Reqs : AuthFinish(r)

SpecRace == Init /\ [][NextRace]_vars

\* one authenticateUser at a time over a collection that also loses documents
NextDrop ==
  \/ Next
  \/ \E u \in Users : dropUser(u)

SpecDrop == Init /\ [][NextDrop]_vars

\* the codec under each configuration of the two secrets
InitCodec ==
  /\ env \in Configs
  /\ now = 0
  /\ db = [u \in Users |-> NoUser]
  /\ issued = {}
  /\ redeemed = {}
  /\ loggedOut = {}
  /\ superseded = {}
  /\ inflight = [r \in Reqs |-> Idle]
  /\ last = NoLast

NextCodec ==
  \/ Forget
  \/ Tick
  \/ \E kind \in Kinds, verifyKind \in Kinds, payload \in Payloads, t0 \in 0..now,
        damage \in Damages : codecApply(kind, verifyKind, payload, t0, damage)

SpecCodec == InitCodec /\ [][NextCodec]_vars

\* register, login and the two logout handlers under each stage
InitCookies ==
  /\ env \in Stages
  /\ now = 0
  /\ db = [u \in Users |-> NoUser]
  /\ issued = {}
  /\ redeemed = {}
  /\ loggedOut = {}
  /\ superseded = {}
  /\ inflight = [r \in Reqs |-> Idle]
  /\ last = NoLast

NextCookies ==
  \/ Forget
  \/ Sessions
  \/ \E t \in RefreshCookies : logoutControllerLogoutUser(t)

SpecCookies == InitCookies /\ [][NextCookies]_vars

\* register and login with logouts that take their two steps, two at a time
NextLogout ==
  \/ Forget
  \/ Tick
  \/ \E u \in Users, csrf \in CsrfIssued, f \in BOOLEAN : registerUser(u, csrf, f)
  \/ \E u \in Users, ok \in BOOLEAN, csrf \in CsrfIssued, f \in BOOLEAN :
       loginUser(u, ok, csrf, f)
  \/ \E r \in Reqs, t \in RefreshCookies : FreeSlot(r) /\ logoutFindOne(r, t)
  \/ \E r \in Reqs : logoutSave(r)

SpecLogout == Init /\ [][NextLogout]_vars

NextCsrf ==
  \/ Forget
  \/ \E m \in Methods, c \in CsrfValues, h \in CsrfValues : csrfRequest(m, c, h)

SpecCsrf == Init /\ [][NextCsrf]_vars

(***************************************************************************)
(* Properties                                                              *)
(***************************************************************************)
IsAuth == last.op = "auth"

\* the request went through the refresh path up to the comparison with the document
Compared == IsAuth /\ last.lookups = 1

\* the document read holds the refresh token presented
Matched == Compared /\ last.found.exists /\ last.found.refreshToken = last.refreshToken

\* the refresh path has issued an access token
Renewed == Compared /\ last.setToken # AbsentTok

ReuseRejected == last.status = 403 /\ last.error = "Invalid refresh token" /\ ~last.next

CsrfRejected ==
  /\ last.status = 403
  /\ last.error \in {"Missing CSRF token", "Invalid CSRF token"}
  /\ ~last.next

\* the stored refresh token of the subject of the refresh token presented
Stored == IF last.refreshToken.id \in Users THEN db[last.refreshToken.id].refreshToken
          ELSE AbsentTok

NoCookies ==
  /\ last.setToken = AbsentTok
  /\ last.setRefresh = AbsentTok
  /\ last.setCsrf = NoCsrf
  /\ last.cleared = {}

AuthStep == last'.op = "auth" \/ \E r \in Reqs : inflight'[r].pc # inflight[r].pc

\* C5: no step of authenticateUser changes a stored refresh token, issues a refresh
\* token, or writes or clears the refreshToken cookie.
C5_NoRefreshTokenByAuth ==
  [][AuthStep =>
       /\ db' = db
       /\ RefreshIssued' = RefreshIssued
       /\ last'.setRefresh = AbsentTok
       /\ "refreshToken" \notin last'.cleared]_vars

C5_Witness == Renewed /\ last.seen /\ ~last.hit /\ Stored = last.refreshToken

\* C6: an access cookie that is present and fails verification other than by expiry
\* is answered 401 at once: the refresh token is not verified, the store is not read,
\* no cookie is written and the downstream handler is not called.
C6_InvalidAccessNoRefresh ==
  (IsAuth /\ last.token.shape # "absent"
     /\ last.access \in {"JWSInvalid", "JWSSignatureVerificationFailed", "JWTInvalid"}) =>
    (/\ last.status = 401 /\ ~last.next
     /\ last.refresh = "" /\ last.lookups = 0
     /\ NoCookies)

C6_Witness ==
  /\ IsAuth /\ last.access = "JWSSignatureVerificationFailed"
  /\ last.token.key = OtherSecret
  /\ last.refreshToken = Stored
  /\ jwtVerify(last.refreshToken, REFRESH_TOKEN_SECRET, now) = "ok"
  /\ last.status = 401

\* C7: a request without token cookie and without refreshToken cookie is answered
\* 401 "No token provided" before any token is verified, the store is read, or the
\* method and the CSRF values are inspected; the downstream handler is not called.
C7_NoTokenProvided ==
  (IsAuth /\ last.token.shape = "absent" /\ last.refreshToken.shape = "absent") =>
    (/\ last.status = 401 /\ last.error = "No token provided" /\ ~last.next
     /\ last.access = "" /\ last.refresh = "" /\ last.lookups = 0
     /\ last.method = "" /\ ~last.csrfRead
     /\ NoCookies)

C7_Witness ==
  /\ IsAuth /\ last.token.shape = "absent" /\ last.refreshToken.shape = "absent"
  /\ last.status = 401
  /\ \E u \in Users : db[u].refreshToken # AbsentTok

\* C8: when the access token is expired and the refresh cookie is absent, expired or
\* fails verification, the request is answered 401 "Session expired": no access token
\* cookie is set, the store is neither read nor changed, downstream is not called.
C8_SessionExpired ==
  [][(/\ last'.op = "auth"
      /\ last'.access = "JWTExpired"
      /\ \/ last'.refreshToken.shape = "absent"
         \/ last'.refresh \in {"JWSInvalid", "JWSSignatureVerificationFailed", "JWTExpired"})
     =>
     (/\ last'.status = 401
      /\ last'.error = "Session expired. Please log in again."
      /\ ~last'.next
      /\ last'.setToken = AbsentTok
      /\ last'.lookups = 0
      /\ db' = db)]_vars

C8_Witness ==
  /\ IsAuth /\ last.access = "JWTExpired" /\ last.refresh = "JWTExpired"
  /\ last.refreshToken = Stored
  /\ last.status = 401

\* C9: the downstream handler is called only with an identity attached (valid access
\* token, or refresh token equal to the stored one) and, for a method other than GET,
\* HEAD, OPTIONS, with a csrfToken cookie equal to the X-CSRF-Token header; a DELETE
\* with a valid access token and no header is answered 403, a GET is passed on.
C9_DownstreamGuarded ==
  IsAuth =>
    /\ last.next =>
         /\ last.user # NoPayload
         /\ \/ last.access = "ok" /\ last.user = PayloadOf(last.token)
            \/ Matched /\ last.user = PayloadOf(last.refreshToken)
         /\ last.method \in Methods
         /\ last.method \notin {"GET", "HEAD", "OPTIONS"} =>
              /\ last.csrfRead
              /\ last.csrfCookie.present /\ last.csrfCookie.bytes # <<>>
              /\ last.csrfCookie = last.csrfHeader
    /\ (last.access = "ok" /\ last.method = "DELETE" /\ ~last.csrfHeader.present) =>
         (last.status = 403 /\ last.error = "Missing CSRF token" /\ ~last.next)
    /\ (last.access = "ok" /\ last.method = "GET") => last.next

C9_Witness ==
  /\ IsAuth /\ last.access = "ok" /\ last.method = "DELETE"
  /\ last.csrfCookie.present /\ ~last.csrfHeader.present
  /\ last.refreshToken = Stored
  /\ jwtVerify(last.refreshToken, REFRESH_TOKEN_SECRET, now) = "ok"
  /\ last.status = 403

\* C10: for a method other than GET, HEAD, OPTIONS the CSRF guard answers 403
\* "Missing CSRF token" when the cookie or the header is absent or empty, 403
\* "Invalid CSRF token" when both are there and differ in length or in a byte, and
\* calls next exactly when both are there and are the same bytes.
C10_CsrfGuard ==
  (last.op = "csrf" /\ last.method \notin {"GET", "HEAD", "OPTIONS"}) =>
    LET c == last.csrfCookie
        h == last.csrfHeader
        missing == ~c.present \/ ~h.present \/ c.bytes = <<>> \/ h.bytes = <<>>
    IN /\ last.csrfRead
       /\ missing => (last.status = 403 /\ last.error = "Missing CSRF token" /\ ~last.next)
       /\ (~missing /\ c.bytes # h.bytes) =>
            (last.status = 403 /\ last.error = "Invalid CSRF token" /\ ~last.next)
       /\ (~missing /\ c.bytes = h.bytes) => (last.next /\ last.status = 0)

C10_Witness ==
  /\ last.op = "csrf" /\ last.method = "POST"
  /\ last.csrfCookie.bytes = <<1, 1>> /\ last.csrfHeader.bytes = <<1, 2>>
  /\ last.status = 403 /\ last.error = "Invalid CSRF token"

\* C11: for GET, HEAD and OPTIONS the CSRF guard calls next without answering and
\* without reading the csrfToken cookie or the X-CSRF-Token header, whatever the
\* request carries in them.
C11_SafeMethodsPass ==
  (last.op = "csrf" /\ last.method \in {"GET", "HEAD", "OPTIONS"}) =>
    (/\ last.next /\ last.status = 0 /\ last.error = ""
     /\ ~last.csrfRead /\ last.csrfCookie = NoCsrf /\ last.csrfHeader = NoCsrf)

C11_Witness ==
  /\ last.op = "csrf" /\ last.method = "OPTIONS"
  /\ last.sentCookie = Str(<<1, 1>>) /\ last.sentHeader = Str(<<1, 2>>)
  /\ last.next

\* C12 as stated: a logout that carries a refresh cookie some user's document holds
\* clears the token, refreshToken and csrfToken cookies in its response and leaves
\* no user holding that value.
C12_Original ==
  (last.op = "logout" /\ last.found.exists) =>
    (/\ last.cleared = {"token", "refreshToken", "csrfToken"}
     /\ findByRefreshToken(last.refreshToken) = {})

\* a refresh request that began after a logout that presented its refresh token had
\* completed, with no register or login of its user since that logout
AfterLogout == IsAuth /\ last.late /\ last.access = "JWTExpired"

\* C13 as stated: a request that presents, with an expired access token, a refresh
\* token that a completed logout has presented is rejected as SessionExpired or
\* InvalidSession (401), gets no access cookie and does not reach downstream, until
\* the user logs in again.
C13_Original ==
  AfterLogout => (~last.next /\ last.setToken = AbsentTok /\ last.status = 401)

\* C13 as amended: such a request is rejected, gets no cookie and does not reach
\* downstream: with 403 "Invalid refresh token" when the refresh token still verifies
\* and the user document was read, with 401 "Session expired" otherwise.
C13_RejectedAfterLogout ==
  AfterLogout =>
    (/\ ~last.next /\ NoCookies
     /\ IF Compared THEN ReuseRejected /\ last.refresh = "ok"
        ELSE last.status = 401 /\ last.error = "Session expired. Please log in again.")

C13_Witness ==
  /\ AfterLogout /\ Compared /\ ReuseRejected
  /\ last.refresh = "ok" /\ last.found.exists /\ last.found.refreshToken = AbsentTok

\* the refresh path accepts refresh token t: it verifies and its user's document
\* holds it
Accepts(t) ==
  verifyRefreshToken(t, now) = "ok" /\ ~InvalidRefreshToken(findById(t.id), t)

C15_ValidAccessNoRotation ==
  [][(/\ last'.op = "auth" /\ last'.method = "POST"
      /\ last'.token \in AccessIssued /\ last'.access = "ok"
      /\ ~Falsy(last'.csrfCookie) /\ last'.csrfHeader = last'.csrfCookie)
     =>
     (/\ last'.next /\ last'.status = 0
      /\ last'.user = PayloadOf(last'.token)
      /\ last'.lookups = 0
      /\ db' = db /\ issued' = issued
      /\ last'.setToken = AbsentTok /\ last'.setRefresh = AbsentTok
      /\ last'.setCsrf = NoCsrf /\ last'.cleared = {})]_vars

C15_Witness ==
  /\ IsAuth /\ last.method = "POST" /\ last.access = "ok" /\ last.next
  /\ last.token.username = Email(last.token.id)
  /\ last.csrfCookie = Str(<<1>>) /\ last.csrfHeader = Str(<<1>>)
  /\ last.refreshToken = Stored /\ Stored # AbsentTok
  /\ NoCookies /\ last.lookups = 0

\* the refresh token presented verifies and is not the one its user's document holds
Mismatched == Compared /\ last.found.exists /\ last.found.refreshToken # last.refreshToken

\* the refresh token presented verifies and its subject has no document
NoRecord == Compared /\ ~last.found.exists

\* one terminal outcome: downstream is called and nothing is answered, or a rejection
\* with status 401 or 403 is answered and downstream is not called
OneOutcome ==
  \/ last.next /\ last.status = 0 /\ last.error = ""
  \/ ~last.next /\ last.status \in {401, 403} /\ last.error # ""

C17_AccessTokenStateless ==
  (IsAuth /\ last.access = "ok") =>
    (/\ last.lookups = 0 /\ last.refresh = ""
     /\ last.user = PayloadOf(last.token)
     /\ NoCookies
     /\ last.method \in {"GET", "HEAD", "OPTIONS"} => last.next
     /\ last.method \notin {"GET", "HEAD", "OPTIONS"} =>
          (last.next <=> (~Falsy(last.csrfCookie) /\ last.csrfCookie = last.csrfHeader))
     /\ IF last.next THEN last.status = 0 ELSE CsrfRejected)

\* a valid access token is accepted after the logout of its user has cleared the
\* stored refresh token
C17_Witness ==
  /\ IsAuth /\ last.access = "ok" /\ last.next /\ last.method = "POST"
  /\ last.refreshToken \in loggedOut
  /\ db[last.token.id].exists /\ db[last.token.id].refreshToken = AbsentTok

\* a token as issued reaches the verifier of the other kind
CrossKind == last.op = "codec" /\ last.damage = "none" /\ last.kind # last.verifyKind

\* C18 as stated: a token issued as a refresh token is never accepted by the
\* verification of access tokens, and a token issued as an access token is never
\* accepted by the verification of refresh tokens.
C18_Original == CrossKind => last.verdict # "ok"

\* a token issued for a payload reaches, as issued, the verifier of its own kind
SameKind == last.op = "codec" /\ last.damage = "none" /\ last.kind = last.verifyKind

TTL(kind) == IF kind = "access" THEN AccessTTL ELSE RefreshTTL

Genuine ==
  /\ last.op = "codec" /\ last.damage = "none"
  /\ last.kind = last.verifyKind \/ env.JWT_SECRET = env.REFRESH_TOKEN_SECRET

Forged == last.op = "codec" /\ ~Genuine

TokenInvalid == last.verdict \in {"JWSInvalid", "JWSSignatureVerificationFailed"}

\* C20 as stated: verification yields the claims when the signature is valid and
\* now <= exp, TokenExpired when the signature is valid and now > exp, TokenInvalid
\* when the token is malformed, altered or signed with another secret, whatever exp.
C20_Original ==
  /\ (Genuine /\ now <= last.token.exp) => (last.verdict = "ok" /\ last.user # NoPayload)
  /\ (Genuine /\ now > last.token.exp) => last.verdict = "JWTExpired"
  /\ Forged => TokenInvalid

\* C20 as amended: verification yields the claims when the signature is valid and
\* now < exp, TokenExpired when the signature is valid and now >= exp, TokenInvalid
\* when the token is malformed, altered or signed with another secret, whatever exp;
\* claims are returned in the first case only.
C20_Classified ==
  /\ (Genuine /\ now < last.token.exp) =>
       (last.verdict = "ok" /\ last.user = PayloadOf(last.token))
  /\ (Genuine /\ now >= last.token.exp) =>
       (last.verdict = "JWTExpired" /\ last.user = NoPayload)
  /\ Forged => (TokenInvalid /\ last.user = NoPayload)

C20_Witness ==
  /\ Genuine /\ last.kind = last.verifyKind /\ now = last.token.exp
  /\ last.verdict = "JWTExpired" /\ last.user = NoPayload

\* the request carries an X-CSRF-Token header equal to its csrfToken cookie
CsrfSent(rec) == ~Falsy(rec.sentCookie) /\ rec.sentHeader = rec.sentCookie

\* C21 as stated: a POST /logout that presents the refresh token of a session and
\* does not carry an X-CSRF-Token header equal to its csrfToken cookie takes no effect: the stored refresh tokens are left as
\* they are and no cookie is cleared or written.
C21_Original ==
  [][(last'.op = "logout" /\ last'.found.exists /\ ~CsrfSent(last')) =>
       (/\ db' = db
        /\ last'.cleared = {}
        /\ last'.setToken = AbsentTok /\ last'.setRefresh = AbsentTok
        /\ last'.setCsrf = NoCsrf)]_vars

\* the attributes the cookie of a name is written with
WrittenAs(h) ==
  /\ h.httpOnly = (h.name \in {"token", "refreshToken"})
  /\ h.secure = (env.NODE_ENV = "production")
  /\ h.sameSite = "lax"
  /\ h.path = "/"

IsLogout == last.op \in {"logout", "logoutController"}

\* C22: every Set-Cookie header of a response, one that writes a cookie at register
\* or login and one that clears it at logout (by the routed handler or by the one of
\* logoutController.ts, which clears refreshToken too), has the same attributes for
\* the same cookie: token and refreshToken HttpOnly, csrfToken not HttpOnly,
\* SameSite=Lax, Path=/, and Secure exactly when the stage is production; the headers
\* of a logout are the clearing headers of the cookies it clears.
C22_ClearedAsWritten ==
  /\ \A h \in last.headers : WrittenAs(h)
  /\ IsLogout => /\ \A h \in last.headers : h.clear
                 /\ {h.name : h \in last.headers} = last.cleared
                 /\ {"token", "csrfToken"} \subseteq last.cleared
  /\ ~IsLogout => \A h \in last.headers : ~h.clear

\* in production the handler of logoutController.ts has cleared the three cookies of
\* a session that was stored, each with Secure
C22_Witness ==
  /\ last.op = "logoutController"
  /\ last.found.exists
  /\ env.NODE_ENV = "production"
  /\ {h.name : h \in last.headers} = {"token", "refreshToken", "csrfToken"}
  /\ \A h \in last.headers : h.clear /\ h.secure

CsrfCookieTouched ==
  \/ last.setCsrf # NoCsrf
  \/ "csrfToken" \in last.cleared
  \/ \E h \in last.headers : h.name = "csrfToken"

\* C23: the csrfToken cookie is written only by the responses of register and login,
\* which write a generated value when they issue the tokens, and cleared only by the
\* response of logout; no response of authenticateUser, on its refresh path or on a
\* rejection, writes or clears it.
C23_CsrfOnlyAtLoginLogout ==
  /\ IsAuth => ~CsrfCookieTouched
  /\ last.setCsrf # NoCsrf => last.op \in {"register", "login"} /\ last.setCsrf \in CsrfIssued
  /\ "csrfToken" \in last.cleared => last.op = "logout"
  /\ (last.op \in {"register", "login"} /\ last.setToken # AbsentTok) => last.setCsrf # NoCsrf
  /\ last.op = "logout" => "csrfToken" \in last.cleared /\ last.setCsrf = NoCsrf

\* a request that carried a csrfToken cookie was served by the refresh path, which
\* wrote a new token cookie and no csrfToken cookie
C23_Witness ==
  /\ Renewed
  /\ last.next
  /\ last.csrfRead
  /\ last.csrfCookie # NoCsrf
  /\ ~CsrfCookieTouched

\* the refresh token presented with an expired access token verified, and the request
\* ended before User.findById had answered
LookupFailed ==
  IsAuth /\ last.access = "JWTExpired" /\ last.refresh = "ok" /\ last.lookups = 0

\* C24: a request of authenticateUser whose User.findById on the refresh path fails
\* is answered 401, its response writes and clears no cookie, no identity is attached
\* to it, and the downstream handler is not called.
C24_FailClosed ==
  LookupFailed =>
    /\ last.status = 401
    /\ last.error = "Session expired. Please log in again."
    /\ ~last.next
    /\ NoCookies
    /\ last.headers = {}
    /\ last.user = NoPayload

\* the lookup failed for a request that presented the refresh token stored for its
\* user
C24_Witness ==
  /\ LookupFailed
  /\ last.status = 401
  /\ Stored = last.refreshToken
  /\ last.refreshToken \in RefreshIssued

\* the request carried a refreshToken cookie and no token cookie
RefreshCookieAlone == IsAuth /\ last.token = AbsentTok /\ last.refreshToken # AbsentTok

\* C25: a request of authenticateUser with a refreshToken cookie and no token cookie
\* is answered 401 with no User.findById and no cookie written, also when the refresh
\* token is the one stored for its user; the refresh token is verified, and the user
\* looked up, only for requests whose token cookie is a JWS that verifies as expired.
C25_RefreshOnlyAfterExpiredAccess ==
  /\ RefreshCookieAlone =>
       /\ last.status = 401
       /\ ~last.next
       /\ last.refresh = ""
       /\ last.lookups = 0
       /\ NoCookies
       /\ last.headers = {}
  /\ (IsAuth /\ (last.refresh # "" \/ last.lookups > 0)) =>
       last.token.shape = "jws" /\ last.access = "JWTExpired"
  /\ \A r \in Reqs : inflight[r].pc # "idle" =>
       inflight[r].acc.shape = "jws" /\ inflight[r].access = "JWTExpired"

\* the refresh cookie sent alone was the unexpired refresh token stored for its user
C25_Witness ==
  /\ RefreshCookieAlone
  /\ last.status = 401
  /\ last.refreshToken \in RefreshIssued
  /\ Stored = last.refreshToken
  /\ verifyRefreshToken(last.refreshToken, now) = "ok"

\* C26 as stated: no response of authenticateUser carries a new access token once a
\* logout that presented the same refresh token has cleared the stored refresh token
\* of its user.
C26_Original ==
  Renewed => ~(last.refreshToken \in loggedOut /\ Stored = AbsentTok)

\* C27 as stated: a response of registerUser or loginUser carries the token,
\* refreshToken and csrfToken cookies only when the refresh token it carries has been
\* stored on the user record; an error response carries none of them.
C27_Original ==
  last.op \in {"register", "login"} =>
    /\ last.setRefresh # AbsentTok => db[last.setRefresh.id].refreshToken = last.setRefresh
    /\ last.status >= 400 => NoCookies /\ last.headers = {}

Identity(p) == [id |-> p.id, email |-> p.email, username |-> p.username]

\* C28 as stated: the access token the refresh path issues carries the id, email and
\* username of the refresh token presented, so the identity attached to the request
\* served by the refresh is the identity of the new access token.
C28_Original ==
  Renewed =>
    /\ Identity(last.setToken) = Identity(last.refreshToken)
    /\ Identity(last.user) = Identity(last.setToken)

\* C29 as stated: a response of authenticateUser that rejects the request (401 or
\* 403, the CSRF rejections after a refresh included) writes no token cookie; a token
\* cookie is written only for a request that continues downstream.
C29_Original ==
  /\ (IsAuth /\ last.status \in {401, 403}) => last.setToken = AbsentTok /\ last.headers = {}
  /\ (IsAuth /\ last.setToken # AbsentTok) => last.next

LogoutDone == last'.op = "logout"

====
